---- MODULE Spec2Model ----
(***************************************************************************)
(* Model of the Progressor BLE peripheral example:                         *)
(*   examples/ble/bas_peripheral/src/main.rs      supervisor, event loop,  *)
(*                                                telemetry task, driver   *)
(*   examples/ble/bas_peripheral/src/datapoint.rs DataOpcode,              *)
(*                                                ControlOpcode, DataPoint *)
(*                                                                         *)
(* The executor is cooperative: code between two awaits runs as one step.  *)
(* Each action below is one such step of one task.  The BLE host (event    *)
(* stream, outcome of notify / accept / send / advertise) is environment   *)
(* and is chosen nondeterministically.                                     *)
(*                                                                         *)
(* Weights are f32 multiples of 0.5 between 0.0 and 50.5; all of them are  *)
(* exact in f32, so a weight is kept as its number of halves (1 = 0.5).    *)
(* Microsecond counts exceed 31 bits, so a time is kept as two 16-bit      *)
(* limbs [hi, lo] with value hi * 65536 + lo.                              *)
(***************************************************************************)
EXTENDS Integers, Sequences, FiniteSets, TLC

VARIABLES
    sup,        \* supervisor loop: "Advertising" (inside advertise()) or "Connected" (inside select)
    advPc,      \* position inside advertise(): "encode", "start", "accept", "bind"; "none" while Connected
    advResult,  \* what the last finished advertise() call returned: "none", "Ok", "Err"
    aborted,    \* the process has panicked
    panicMsg,   \* prefix of the panic message: "none", "adv", "ble_task"
    accepted,   \* number of connections accepted so far
    conn,       \* the GattConnection the supervisor holds (its number), 0 when none
    events,     \* host side: events of the connection not yet taken by conn.next()
    streamOpen, \* host side: the connection can still produce events
    gattPc,     \* gatt_events_task: "none", "next", "notify", "reply", "done"
    pending,    \* gatt_events_task: the event taken and not yet acknowledged
    reason,     \* gatt_events_task: the reason it logged at exit, "none" before
    returned,   \* gatt_events_task: the value it returned, "none" before
    telPc,      \* custom_task: "none", "notify", "sleep", "done"
    weight,     \* custom_task: weight, in halves
    elapsed,    \* custom_task: time since `start`, in microseconds (two limbs)
    ticks,      \* custom_task: packets built in this run of the task
    stalls,     \* number of long delays the host has caused in this run
    notified,   \* the last call of data_point.notify: [src, conn, data]
    yielded,    \* history: reason of the Disconnected event the stream yielded for this connection
    ended,      \* history: which task ended the pair: "none", "gatt", "tel"
    cancelledAt,\* history: where the sibling was suspended when the pair ended
    lastErr,    \* history: the last connection-scoped error
    telFailed,  \* history: a notify of the telemetry task failed on this connection
    warned,     \* the log::warn! line written by the last step of a task, "none" if it wrote none
    cData,      \* codec: argument of ControlOpcode::from_bytes
    cOp,        \* codec: its result
    fArgs,      \* codec: arguments of DataPoint::from_parts
    fOut,       \* codec: DataPoint::to_bytes of the result
    dOp,        \* codec: a DataOpcode value
    dOut        \* codec: outcome of building its frame

vars == <<sup, advPc, advResult, aborted, panicMsg, accepted, conn, events, streamOpen,
          gattPc, pending, reason, returned, telPc, weight, elapsed, ticks, stalls, notified,
          yielded, ended, cancelledAt, lastErr, telFailed, warned, cData, cOp, fArgs, fOut,
          dOp, dOut>>

supVars   == <<sup, advPc, advResult, aborted, panicMsg, accepted, conn>>
hostVars  == <<events, streamOpen>>
gattVars  == <<gattPc, pending, reason, returned>>
telVars   == <<telPc, weight, elapsed, ticks, stalls>>
histVars  == <<yielded, ended, cancelledAt, lastErr, telFailed, warned>>
codecVars == <<cData, cOp, fArgs, fOut, dOp, dOut>>

----------------------------------------------------------------------------
(* Bounds of the model *)

MaxConns == 3
MaxQueue == 1
MaxTicks == 2
MaxWrapTicks == 103
MaxStalls == 2
MaxTail == 1
MaxSrcLen == 13
MaxBurst == 3

----------------------------------------------------------------------------
(* Program constants *)

DATA_PAYLOAD_SIZE == 12
IdQueryByte == 112
WeightStep == 1
WeightLimit == 100
PeriodMs == 100

Byte == 0 .. 255

----------------------------------------------------------------------------
(* Bytes, u32, f32 *)

Limb == 256 * 256

ZeroUs == [hi |-> 0, lo |-> 0]

AddUs(t, d) ==
    LET s == t.lo + d.lo
    IN  [hi |-> t.hi + d.hi + (s \div Limb), lo |-> s % Limb]

\* Duration::as_micros of a millisecond count
MillisToUs(ms) ==
    LET us == ms * 1000 IN [hi |-> us \div Limb, lo |-> us % Limb]

\* variant: a value above u32::MAX becomes u32::MAX
AsU32Saturating(t) ==
    IF t.hi >= Limb THEN [hi |-> Limb - 1, lo |-> Limb - 1] ELSE t

\* `as u32` of a u64: keeps the low 32 bits
AsU32(t) == [hi |-> t.hi % Limb, lo |-> t.lo]

\* bytes_of(&u32) / u32::to_le_bytes on a little-endian target
U32Bytes(u) == <<u.lo % 256, u.lo \div 256, u.hi % 256, u.hi \div 256>>

RECURSIVE FloorLog2(_)
FloorLog2(n) == IF n < 2 THEN 0 ELSE 1 + FloorLog2(n \div 2)

RECURSIVE Pow2(_)
Pow2(n) == IF n = 0 THEN 1 ELSE 2 * Pow2(n - 1)

\* IEEE-754 binary32 bit pattern of h * 0.5, for 0 <= h < 2^24
F32Bits(h) ==
    IF h = 0 THEN [hi |-> 0, lo |-> 0]
    ELSE LET e    == FloorLog2(h)
             expo == e - 1 + 127
             mant == (h - Pow2(e)) * Pow2(23 - e)
         IN  [hi |-> expo * 128 + (mant \div Limb), lo |-> mant % Limb]

\* bytes_of(&f32) / f32::to_le_bytes
F32Bytes(h) == U32Bytes(F32Bits(h))

----------------------------------------------------------------------------
(* The host's events and the frames notified by main.rs *)

Reasons == {"RemoteUserTerminatedConn", "ConnectionTimeout"}

NoEvent == [kind |-> "None", handle |-> "none", data |-> <<>>, reason |-> "none"]

Disconnected(r) == [kind |-> "Disconnected", handle |-> "none", data |-> <<>>, reason |-> r]

Write(h, d) == [kind |-> "Write", handle |-> h, data |-> d, reason |-> "none"]

Read(h) == [kind |-> "Read", handle |-> h, data |-> <<>>, reason |-> "none"]

OtherGatt == [kind |-> "OtherGatt", handle |-> "other", data |-> <<>>, reason |-> "none"]

OtherConnEvent == [kind |-> "Other", handle |-> "none", data |-> <<>>, reason |-> "none"]

\* payloads a central writes: empty, the ID query, Tare, an unmapped byte,
\* and two-byte payloads that begin with the ID query byte or with Tare
WriteData == {<<>>, <<IdQueryByte>>, <<0>>, <<113>>, <<IdQueryByte, 0>>, <<0, IdQueryByte>>}

Events ==
    {Disconnected(r) : r \in Reasons}
    \cup {Write("control_point", d) : d \in WriteData}
    \cup {Write("other", <<IdQueryByte>>), Read("data_point"), Read("other"),
          OtherGatt, OtherConnEvent}

NoNotify == [src |-> "none", conn |-> 0, data |-> <<>>]

\* variant: only the first byte is compared
IsIdQueryPrefix(data) == Len(data) >= 1 /\ data[1] = IdQueryByte

\* main.rs 236: data.len() == 1 && data[0] == 112
IsIdQuery(data) == Len(data) = 1 /\ data[1] = IdQueryByte

\* variant: response_small is notified as it is, without the 10-byte buffer
IdResponseUnpadded == <<0, 1, 42>>

\* main.rs 238-240: response_small copied into the zeroed 10-byte buffer
IdResponse ==
    LET response_small == <<0, 1, 42>>
    IN  [i \in 1 .. 10 |-> IF i <= Len(response_small) THEN response_small[i] ELSE 0]

\* variant: the reset is taken on reaching the limit
NextWeightGe(w) ==
    LET w1 == w + WeightStep
    IN  IF w1 >= WeightLimit THEN 0 ELSE w1

\* main.rs 356-359
NextWeight(w) ==
    LET w1 == w + WeightStep
    IN  IF w1 > WeightLimit THEN 0 ELSE w1

\* variant: the counter is carried over from the previous run of the task
FirstWeightCarried(prev) == NextWeight(prev)

\* main.rs 352-359: every run of custom_task starts from 0.0, so the first
\* weight it sends does not depend on what an earlier run left
FirstWeight(prev) == NextWeight(0)

\* main.rs 366-370
Packet(w, ts) == <<1, 8>> \o F32Bytes(w) \o U32Bytes(ts)

\* main.rs 362
Timestamp(el) == AsU32(el)

\* a long delay caused by the host (a stalled notify, a late wake-up): 2^31 us
StallUs == [hi |-> 32768, lo |-> 0]

----------------------------------------------------------------------------
(* select(a, b): the supervisor's composition of the two tasks *)

\* variant: join(a, b), which waits for both futures
SelectJoin(aDone, bDone) == aDone /\ bDone

\* select completes as soon as one of the two futures has completed
Select(aDone, bDone) == aDone \/ bDone

\* variant: the tasks are spawned detached and outlive the select
KeepRunning(pc) == pc

\* when select returns, both futures are dropped: the loser stops where it is suspended
Drop(pc) == "none"

\* main.rs 229: break reason
CaptureReason(e) == e.reason

\* variant: the end of the pair is treated as an error and panics
PanicOnPairEnd ==
    /\ aborted' = TRUE
    /\ panicMsg' = "adv"
    /\ UNCHANGED <<sup, advPc, advResult, conn>>

\* main.rs 138-148: the result of select is discarded, conn goes out of scope
\* and the loop calls advertise() again
ReturnToAdvertising ==
    /\ sup' = "Advertising"
    /\ advPc' = "encode"
    /\ advResult' = "none"
    /\ conn' = 0
    /\ UNCHANGED <<aborted, panicMsg>>

\* The end of a step of one of the two tasks, which leaves the event loop at g,
\* the telemetry task at t and the event queue as q: select returns if one of
\* them is done, and the host discards what the dropped connection had queued.
Supervise(g, t, q) ==
    IF Select(g = "done", t = "done")
    THEN /\ gattPc' = Drop(g)
         /\ telPc' = Drop(t)
         /\ ReturnToAdvertising
         /\ events' = <<>>
         /\ streamOpen' = FALSE
         /\ ended' = IF g = "done" THEN "gatt" ELSE "tel"
         /\ cancelledAt' = IF g = "done" THEN t ELSE g
    ELSE /\ gattPc' = g
         /\ telPc' = t
         /\ events' = q
         /\ UNCHANGED <<sup, advPc, advResult, conn, aborted, panicMsg,
                        streamOpen, ended, cancelledAt>>

----------------------------------------------------------------------------
(* advertise() and the supervisor loop *)

\* variant: the error is dropped and the loop advertises again
RetryAdvertise ==
    /\ advResult' = "Err"
    /\ advPc' = "encode"
    /\ UNCHANGED <<sup, aborted, panicMsg, accepted, conn>>

\* main.rs 149-151: Err(e) => panic!("[adv] error: ...")
OnAdvertiseErr ==
    /\ advResult' = "Err"
    /\ aborted' = TRUE
    /\ panicMsg' = "adv"
    /\ UNCHANGED <<sup, advPc, accepted, conn>>

\* one fallible step of advertise(): `?` returns the error to the loop
AdvStep(from, to) ==
    /\ ~aborted
    /\ sup = "Advertising"
    /\ advPc = from
    /\ \E ok \in BOOLEAN :
          IF ok
          THEN /\ advPc' = to
               /\ UNCHANGED <<sup, advResult, aborted, panicMsg, accepted, conn>>
          ELSE OnAdvertiseErr
    /\ UNCHANGED <<hostVars, gattVars, telVars, notified, histVars, codecVars>>

\* main.rs 275-282: AdStructure::encode_slice(...)?
AdvEncode == AdvStep("encode", "start")

\* main.rs 283-291: peripheral.advertise(...).await?
AdvStart == AdvStep("start", "accept")

\* main.rs 293: advertiser.accept().await?
AdvAccept ==
    /\ ~aborted
    /\ sup = "Advertising"
    /\ advPc = "accept"
    /\ \E ok \in BOOLEAN :
          IF ok
          THEN /\ accepted < MaxConns
               /\ accepted' = accepted + 1
               /\ advPc' = "bind"
               /\ UNCHANGED <<sup, advResult, aborted, panicMsg, conn>>
          ELSE OnAdvertiseErr
    /\ UNCHANGED <<hostVars, gattVars, telVars, notified, histVars, codecVars>>

\* main.rs 293-295 and 140-147: with_attribute_server(server)?, Ok(conn), then the
\* first poll of select(a, b): the event loop runs to conn.next().await and the
\* telemetry task builds its first packet and calls notify
AdvBind ==
    /\ ~aborted
    /\ sup = "Advertising"
    /\ advPc = "bind"
    /\ \E ok \in BOOLEAN :
          IF ok
          THEN /\ sup' = "Connected"
               /\ advPc' = "none"
               /\ advResult' = "Ok"
               /\ conn' = accepted
               /\ UNCHANGED <<aborted, panicMsg, accepted>>
               /\ events' = <<>>
               /\ streamOpen' = TRUE
               /\ gattPc' = "next"
               /\ pending' = NoEvent
               /\ telPc' = "notify"
               /\ weight' = FirstWeight(weight)
               /\ elapsed' = ZeroUs
               /\ ticks' = 1
               /\ stalls' = 0
               /\ notified' = [src |-> "tel", conn |-> accepted,
                               data |-> Packet(FirstWeight(weight), Timestamp(ZeroUs))]
               /\ yielded' = "none"
               /\ ended' = "none"
               /\ cancelledAt' = "none"
               /\ telFailed' = FALSE
               /\ UNCHANGED <<reason, returned, lastErr, warned>>
          ELSE /\ OnAdvertiseErr
               /\ UNCHANGED <<hostVars, gattVars, telVars, notified, histVars>>
    /\ UNCHANGED codecVars

\* main.rs 174-180: runner.run() returned an error
RunnerErr ==
    /\ ~aborted
    /\ aborted' = TRUE
    /\ panicMsg' = "ble_task"
    /\ UNCHANGED <<sup, advPc, advResult, accepted, conn>>
    /\ UNCHANGED <<hostVars, gattVars, telVars, notified, histVars, codecVars>>

----------------------------------------------------------------------------
(* The host: the connection's event stream *)

\* the host delivers one more event of E while fewer than `cap` are waiting
HostDeliver(cap, E) ==
    /\ ~aborted
    /\ conn # 0
    /\ streamOpen
    /\ Len(events) < cap
    /\ \E e \in E :
          /\ events' = Append(events, e)
          /\ streamOpen' = (e.kind # "Disconnected")
    /\ UNCHANGED <<supVars, gattVars, telVars, notified, histVars, codecVars>>

HostEvent == HostDeliver(MaxQueue, Events)

\* a central that writes faster than the event loop replies
BurstEvents ==
    {Write("control_point", <<IdQueryByte>>), Write("control_point", <<0>>),
     Read("data_point"), Disconnected("ConnectionTimeout")}

----------------------------------------------------------------------------
(* gatt_events_task: the Event Loop *)

\* variant: a failed accept ends the event loop
AcceptOrBreak(e, ok) ==
    [pc      |-> IF ok THEN "reply" ELSE "done",
     pending |-> IF ok THEN e ELSE NoEvent,
     err     |-> IF ok THEN "none" ELSE "AttReply"]

\* main.rs 255-257: event.accept() gives the reply to send, or fails and is skipped
AcceptResult(e, ok) ==
    [pc      |-> IF ok THEN "reply" ELSE "next",
     pending |-> IF ok THEN e ELSE NoEvent,
     err     |-> IF ok THEN "none" ELSE "AttReply"]

\* variant: every Control-Point write is answered
RespondsToAnyWrite(e) ==
    /\ e.kind = "Write"
    /\ e.handle = "control_point"

\* main.rs 231-253: does the match on the Gatt event call data_point.notify?
Responds(e) ==
    /\ e.kind = "Write"
    /\ e.handle = "control_point"
    /\ IsIdQuery(e.data)

\* main.rs 228-260: conn.next() returns the head of the stream
GattNext ==
    /\ ~aborted
    /\ gattPc = "next"
    /\ events # <<>>
    /\ LET e == Head(events)
           q == Tail(events)
       IN  CASE e.kind = "Disconnected" ->
                  /\ reason' = CaptureReason(e)
                  /\ returned' = "Ok"
                  /\ yielded' = e.reason
                  /\ lastErr' = "Disconnected"
                  /\ UNCHANGED <<pending, notified>>
                  /\ Supervise("done", telPc, q)
             [] e.kind = "Other" ->
                  /\ UNCHANGED <<pending, reason, returned, notified, yielded, lastErr>>
                  /\ Supervise("next", telPc, q)
             [] OTHER ->
                  IF Responds(e)
                  THEN /\ notified' = [src |-> "gatt", conn |-> conn, data |-> IdResponse]
                       /\ pending' = e
                       /\ UNCHANGED <<reason, returned, yielded, lastErr>>
                       /\ Supervise("notify", telPc, q)
                  ELSE \E ok \in BOOLEAN :
                          LET r == AcceptResult(e, ok)
                          IN  /\ pending' = r.pending
                              /\ lastErr' = IF r.err = "none" THEN lastErr ELSE r.err
                              /\ UNCHANGED <<reason, returned, yielded, notified>>
                              /\ Supervise(r.pc, telPc, q)
    /\ warned' = "none"
    /\ UNCHANGED <<accepted, weight, elapsed, ticks, stalls, telFailed, codecVars>>

\* variant: the write is acknowledged only when its ID response went out
AckOnlyIfNotified(nOk, next) == IF nOk THEN next ELSE "next"

\* variant: a failed ID response ends the event loop
BreakOnIdResponseErr(nOk, next) == IF nOk THEN next ELSE "done"

\* main.rs 243-245: a failed ID response is only warned about; the loop goes
\* on to where accepting the write leads
AfterIdResponse(nOk, next) == next

\* main.rs 243-257: the ID response's notify completes; a failure is only warned
\* about; then the write is accepted
GattNotifyDone ==
    /\ ~aborted
    /\ gattPc = "notify"
    /\ \E nOk \in BOOLEAN, aOk \in BOOLEAN :
          LET r == AcceptResult(pending, aOk)
          IN  /\ pending' = r.pending
              /\ lastErr' = IF r.err # "none" THEN r.err
                            ELSE IF ~nOk THEN "GattNotify" ELSE lastErr
              /\ warned' = IF nOk THEN "none" ELSE "[gatt] Failed to notify data point"
              /\ Supervise(AfterIdResponse(nOk, r.pc), telPc, events)
    /\ UNCHANGED <<accepted, reason, returned, notified, yielded, telFailed,
                   weight, elapsed, ticks, stalls, codecVars>>

\* main.rs 256: reply.send().await completes; its outcome is not looked at
GattReplyDone ==
    /\ ~aborted
    /\ gattPc = "reply"
    /\ \E ok \in BOOLEAN :
          lastErr' = IF ok THEN lastErr ELSE "AttReply"
    /\ warned' = "none"
    /\ pending' = NoEvent
    /\ Supervise("next", telPc, events)
    /\ UNCHANGED <<accepted, reason, returned, notified, yielded, telFailed,
                   weight, elapsed, ticks, stalls, codecVars>>

----------------------------------------------------------------------------
(* custom_task: the Telemetry Task *)

\* variant: a failed notify is ignored and the task sleeps as usual
TelIgnoreErr(ok) == "sleep"

\* main.rs 379-384: after notify, break on an error, else sleep 100 ms
TelAfterNotify(ok) == IF ok THEN "sleep" ELSE "done"

\* main.rs 379-384: notify completes
TelNotifyDone ==
    /\ ~aborted
    /\ telPc = "notify"
    /\ \E ok \in BOOLEAN :
          /\ lastErr' = IF ok THEN lastErr ELSE "TelNotify"
          /\ warned' = IF ok THEN "none" ELSE "[custom_task] notify failed"
          /\ telFailed' = (telFailed \/ ~ok)
          /\ Supervise(gattPc, TelAfterNotify(ok), events)
    /\ UNCHANGED <<accepted, pending, reason, returned, notified, yielded,
                   weight, elapsed, ticks, stalls, codecVars>>

\* main.rs 354-379: the timer fires; the next weight, timestamp and packet, and
\* the call of notify.  At most `cap` packets are built per run of the task.
TelTick(cap) ==
    /\ ~aborted
    /\ telPc = "sleep"
    /\ ticks < cap
    /\ \E stall \in BOOLEAN :
          /\ stall => stalls < MaxStalls
          /\ stalls' = IF stall THEN stalls + 1 ELSE stalls
          /\ LET el == AddUs(AddUs(elapsed, MillisToUs(PeriodMs)),
                             IF stall THEN StallUs ELSE ZeroUs)
                 w  == NextWeight(weight)
             IN  /\ elapsed' = el
                 /\ weight' = w
                 /\ notified' = [src |-> "tel", conn |-> conn,
                                 data |-> Packet(w, Timestamp(el))]
    /\ ticks' = ticks + 1
    /\ warned' = "none"
    /\ Supervise(gattPc, "notify", events)
    /\ UNCHANGED <<accepted, pending, reason, returned, yielded, lastErr, telFailed, codecVars>>

----------------------------------------------------------------------------
(* datapoint.rs: ControlOpcode and DataPoint *)

Known(tag) == [tag |-> tag, byte |-> 0]

Unknown(b) == [tag |-> "Unknown", byte |-> b]

Invalid == [tag |-> "Invalid", byte |-> 0]

NotDecoded == [tag |-> "none", byte |-> 0]

NoArgs == [opcode |-> 0, length |-> 0, payload |-> <<>>]

\* variant: the last byte of the write is decoded instead of the first
from_bytes_last(data) ==
    IF Len(data) = 0 THEN Invalid
    ELSE IF data[Len(data)] = 112 THEN Known("GetProgressorID")
    ELSE Unknown(data[Len(data)])

\* datapoint.rs 91-110
from_bytes(data) ==
    IF Len(data) = 0 THEN Invalid
    ELSE LET b == data[1]
         IN  CASE b = 0   -> Known("Tare")
               [] b = 101 -> Known("StartMeasurement")
               [] b = 102 -> Known("StopMeasurement")
               [] b = 3   -> Known("StartPeakRfdMeasurement")
               [] b = 4   -> Known("StartPeakRfdMeasurementSeries")
               [] b = 5   -> Known("GetAppVersion")
               [] b = 6   -> Known("GetErrorInfo")
               [] b = 7   -> Known("ClearErrorInfo")
               [] b = 8   -> Known("Shutdown")
               [] b = 9   -> Known("SampleBattery")
               [] b = 112 -> Known("GetProgressorID")
               [] OTHER   -> Unknown(b)

\* datapoint.rs 88-90
is_known_opcode(op) == ~(op.tag = "Unknown" \/ op.tag = "Invalid")

Min(a, b) == IF a < b THEN a ELSE b

\* variant: `length` bytes are copied instead of the payload's size
from_parts_length(opcode, length, src) ==
    LET len == Min(Min(Len(src), length), DATA_PAYLOAD_SIZE)
    IN  [opcode |-> opcode,
         length |-> length,
         value  |-> [i \in 1 .. DATA_PAYLOAD_SIZE |-> IF i <= len THEN src[i] ELSE 0]]

\* datapoint.rs 146-158: src is bytes_of(payload)
from_parts(opcode, length, src) ==
    LET len == Min(Len(src), DATA_PAYLOAD_SIZE)
    IN  [opcode |-> opcode,
         length |-> length,
         value  |-> [i \in 1 .. DATA_PAYLOAD_SIZE |-> IF i <= len THEN src[i] ELSE 0]]

\* datapoint.rs 161-167
DataPoint_to_bytes(dp) == <<dp.opcode, dp.length>> \o dp.value

\* datapoint.rs 9-15: the values of enum DataOpcode; a field a variant does not
\* have is left at zero
BatteryVoltage(v) == [tag |-> "BatteryVoltage", voltage |-> v, weight |-> 0, timestamp |-> ZeroUs, version |-> <<>>, id |-> 0]

Weight(w, t) == [tag |-> "Weight", voltage |-> ZeroUs, weight |-> w, timestamp |-> t, version |-> <<>>, id |-> 0]

LowPowerWarning == [tag |-> "LowPowerWarning", voltage |-> ZeroUs, weight |-> 0, timestamp |-> ZeroUs, version |-> <<>>, id |-> 0]

AppVersion(s) == [tag |-> "AppVersion", voltage |-> ZeroUs, weight |-> 0, timestamp |-> ZeroUs, version |-> s, id |-> 0]

ProgressorId(i) == [tag |-> "ProgressorId", voltage |-> ZeroUs, weight |-> 0, timestamp |-> ZeroUs, version |-> <<>>, id |-> i]

NoDataOpcode == [tag |-> "none", voltage |-> ZeroUs, weight |-> 0, timestamp |-> ZeroUs, version |-> <<>>, id |-> 0]

\* the outcome of building a frame: the bytes returned, or a panic
Returned(via, bytes) == [via |-> via, panic |-> FALSE, bytes |-> bytes]

Panicked(via) == [via |-> via, panic |-> TRUE, bytes |-> <<>>]

NotBuilt == [via |-> "none", panic |-> FALSE, bytes |-> <<>>]

\* variant: LowPowerWarning shares the opcode of the other responses
DataOpcode_opcode_zero(op) ==
    CASE op.tag = "Weight" -> 1
      [] OTHER -> 0

\* datapoint.rs 18-26
DataOpcode_opcode(op) ==
    CASE op.tag \in {"BatteryVoltage", "AppVersion", "ProgressorId"} -> 0
      [] op.tag = "Weight" -> 1
      [] op.tag = "LowPowerWarning" -> 4

\* datapoint.rs 28-36; `as u8` keeps the low 8 bits of version.len()
DataOpcode_length(op) ==
    CASE op.tag = "BatteryVoltage" -> 4
      [] op.tag = "Weight" -> 8
      [] op.tag = "ProgressorId" -> 1
      [] op.tag = "LowPowerWarning" -> 0
      [] op.tag = "AppVersion" -> Len(op.version) % 256

\* value[0 .. Len(bytes)].copy_from_slice(bytes) on the zeroed payload array
PutAtStart(bytes) == [i \in 1 .. DATA_PAYLOAD_SIZE |-> IF i <= Len(bytes) THEN bytes[i] ELSE 0]

\* variant: the timestamp is stored before the weight
DataOpcode_value_swapped(op) ==
    CASE op.tag = "BatteryVoltage" -> [panic |-> FALSE, value |-> PutAtStart(U32Bytes(op.voltage))]
      [] op.tag = "Weight" ->
            [panic |-> FALSE, value |-> PutAtStart(U32Bytes(op.timestamp) \o F32Bytes(op.weight))]
      [] op.tag = "LowPowerWarning" -> [panic |-> FALSE, value |-> PutAtStart(<<>>)]
      [] op.tag = "ProgressorId" -> [panic |-> FALSE, value |-> PutAtStart(<<op.id>>)]
      [] op.tag = "AppVersion" ->
            IF Len(op.version) > DATA_PAYLOAD_SIZE
            THEN [panic |-> TRUE, value |-> <<>>]
            ELSE [panic |-> FALSE, value |-> PutAtStart(op.version)]

\* datapoint.rs 38-57; value[0..version.len()] panics (range end out of range)
\* when the version has more bytes than the payload array
DataOpcode_value(op) ==
    CASE op.tag = "BatteryVoltage" -> [panic |-> FALSE, value |-> PutAtStart(U32Bytes(op.voltage))]
      [] op.tag = "Weight" ->
            [panic |-> FALSE, value |-> PutAtStart(F32Bytes(op.weight) \o U32Bytes(op.timestamp))]
      [] op.tag = "LowPowerWarning" -> [panic |-> FALSE, value |-> PutAtStart(<<>>)]
      [] op.tag = "ProgressorId" -> [panic |-> FALSE, value |-> PutAtStart(<<op.id>>)]
      [] op.tag = "AppVersion" ->
            IF Len(op.version) > DATA_PAYLOAD_SIZE
            THEN [panic |-> TRUE, value |-> <<>>]
            ELSE [panic |-> FALSE, value |-> PutAtStart(op.version)]

\* datapoint.rs 59-65
DataOpcode_to_bytes(op) ==
    LET opcode == DataOpcode_opcode(op)
        length == DataOpcode_length(op)
        v      == DataOpcode_value(op)
    IN  IF v.panic THEN Panicked("DataOpcode::to_bytes")
        ELSE Returned("DataOpcode::to_bytes", <<opcode, length>> \o v.value)

\* datapoint.rs 171-179 followed by 161-167: DataPoint::from(op).to_bytes()
DataPoint_from_to_bytes(op) ==
    LET opcode == DataOpcode_opcode(op)
        length == DataOpcode_length(op)
        v      == DataOpcode_value(op)
    IN  IF v.panic THEN Panicked("DataPoint::from")
        ELSE Returned("DataPoint::from",
                      DataPoint_to_bytes([opcode |-> opcode, length |-> length, value |-> v.value]))

\* datapoint.rs 127-144
weight_from_parts(opcode, length, w, timestamp) ==
    [opcode |-> opcode,
     length |-> length,
     value  |-> PutAtStart(F32Bytes(w) \o U32Bytes(timestamp))]

\* u32 values handed to the encoders: both ends, a carry between the limbs, and
\* one with four different bytes
U32Samples ==
    {[hi |-> 0, lo |-> 0], [hi |-> 0, lo |-> 1], [hi |-> 0, lo |-> Limb - 1],
     [hi |-> 1, lo |-> 0], [hi |-> 4660, lo |-> 22136], [hi |-> Limb - 1, lo |-> Limb - 1]}

\* weights handed to the encoders, in halves: everything custom_task computes
\* (0.0 .. 50.5) and the largest odd number of halves f32 holds
WeightSamples == (0 .. (WeightLimit + WeightStep)) \cup {Pow2(24) - 1}

\* byte strings handed to from_bytes: any first byte, a short tail
TailBytes == {0, IdQueryByte, 255}

RECURSIVE SeqsUpTo(_, _)
SeqsUpTo(S, n) ==
    IF n = 0 THEN {<<>>}
    ELSE LET shorter == SeqsUpTo(S, n - 1)
         IN  shorter \cup {Append(q, x) : q \in shorter, x \in S}

DecodeInputs == {<<>>} \cup {<<b>> \o t : b \in Byte, t \in SeqsUpTo(TailBytes, MaxTail)}

\* arguments handed to from_parts: a payload of n bytes, nonzero at every index
OpcodeSamples == {0, 1, 4, 255}

LengthSamples == (0 .. DATA_PAYLOAD_SIZE) \cup {255}

Payloads == {[i \in 1 .. n |-> (base + i) % 256] : n \in 0 .. MaxSrcLen, base \in {0, 200}}

EncodeInputs ==
    {[opcode |-> o, length |-> l, payload |-> p] :
        o \in OpcodeSamples, l \in LengthSamples, p \in Payloads}

DataOpcodeInputs ==
    {BatteryVoltage(v) : v \in U32Samples}
    \cup {Weight(w, t) : w \in WeightSamples, t \in U32Samples}
    \cup {LowPowerWarning}
    \cup {AppVersion(s) : s \in Payloads}
    \cup {ProgressorId(i) : i \in Byte}

----------------------------------------------------------------------------
(* The program *)

InitProgram ==
    /\ sup = "Advertising"
    /\ advPc = "encode"
    /\ advResult = "none"
    /\ aborted = FALSE
    /\ panicMsg = "none"
    /\ accepted = 0
    /\ conn = 0
    /\ events = <<>>
    /\ streamOpen = FALSE
    /\ gattPc = "none"
    /\ pending = NoEvent
    /\ reason = "none"
    /\ returned = "none"
    /\ telPc = "none"
    /\ weight = 0
    /\ elapsed = ZeroUs
    /\ ticks = 0
    /\ stalls = 0
    /\ notified = NoNotify
    /\ yielded = "none"
    /\ ended = "none"
    /\ cancelledAt = "none"
    /\ lastErr = "none"
    /\ telFailed = FALSE
    /\ warned = "none"

Init ==
    /\ InitProgram
    /\ cData = <<>>
    /\ cOp = NotDecoded
    /\ fArgs = NoArgs
    /\ fOut = <<>>
    /\ dOp = NoDataOpcode
    /\ dOut = NotBuilt

Next ==
    \/ AdvEncode
    \/ AdvStart
    \/ AdvAccept
    \/ AdvBind
    \/ RunnerErr
    \/ HostEvent
    \/ GattNext
    \/ GattNotifyDone
    \/ GattReplyDone
    \/ TelNotifyDone
    \/ TelTick(MaxTicks)

Spec == Init /\ [][Next]_vars

\* One quiet central: the telemetry task runs long enough for the weight to wrap
NextW ==
    \/ AdvEncode
    \/ AdvStart
    \/ AdvAccept
    \/ AdvBind
    \/ TelNotifyDone
    \/ TelTick(MaxWrapTicks)

SpecW == Init /\ [][NextW]_vars

\* One central that sends bursts of events while the telemetry task waits
NextQ ==
    \/ AdvEncode
    \/ AdvStart
    \/ AdvAccept
    \/ AdvBind
    \/ HostDeliver(MaxBurst, BurstEvents)
    \/ GattNext
    \/ GattNotifyDone
    \/ GattReplyDone
    \/ TelNotifyDone

SpecQ == Init /\ [][NextQ]_vars

----------------------------------------------------------------------------
(* The pure functions of datapoint.rs, applied to inputs drawn at the start *)

InitDecode ==
    /\ InitProgram
    /\ cData \in DecodeInputs
    /\ cOp = NotDecoded
    /\ fArgs = NoArgs
    /\ fOut = <<>>
    /\ dOp = NoDataOpcode
    /\ dOut = NotBuilt

\* ControlOpcode::from_bytes(&cData)
Decode ==
    /\ cOp = NotDecoded
    /\ cOp' = from_bytes(cData)
    /\ UNCHANGED <<supVars, hostVars, gattVars, telVars, notified, histVars, cData, fArgs, fOut, dOp, dOut>>

SpecDecode == InitDecode /\ [][Decode]_vars

InitEncode ==
    /\ InitProgram
    /\ cData = <<>>
    /\ cOp = NotDecoded
    /\ fArgs \in EncodeInputs
    /\ fOut = <<>>
    /\ dOp = NoDataOpcode
    /\ dOut = NotBuilt

\* DataPoint::from_parts(opcode, length, &payload).to_bytes()
Encode ==
    /\ fOut = <<>>
    /\ fOut' = DataPoint_to_bytes(from_parts(fArgs.opcode, fArgs.length, fArgs.payload))
    /\ UNCHANGED <<supVars, hostVars, gattVars, telVars, notified, histVars, cData, cOp, fArgs, dOp, dOut>>

SpecEncode == InitEncode /\ [][Encode]_vars

InitBuild ==
    /\ InitProgram
    /\ cData = <<>>
    /\ cOp = NotDecoded
    /\ fArgs = NoArgs
    /\ fOut = <<>>
    /\ dOp \in DataOpcodeInputs
    /\ dOut = NotBuilt

\* op.to_bytes()
Build ==
    /\ dOut = NotBuilt
    /\ dOut' = DataOpcode_to_bytes(dOp)
    /\ UNCHANGED <<supVars, hostVars, gattVars, telVars, notified, histVars, cData, cOp, fArgs, fOut, dOp>>

\* DataPoint::from(op).to_bytes()
BuildFrom ==
    /\ dOut = NotBuilt
    /\ dOut' = DataPoint_from_to_bytes(dOp)
    /\ UNCHANGED <<supVars, hostVars, gattVars, telVars, notified, histVars, cData, cOp, fArgs, fOut, dOp>>

\* DataPoint::weight_from_parts(opcode, length, w, t).to_bytes(), the caller
\* choosing opcode and length
BuildWeightFromParts ==
    /\ dOut = NotBuilt
    /\ dOp.tag = "Weight"
    /\ \E o \in OpcodeSamples, l \in {0, 8} :
          dOut' = Returned("weight_from_parts",
                           DataPoint_to_bytes(weight_from_parts(o, l, dOp.weight, dOp.timestamp)))
    /\ UNCHANGED <<supVars, hostVars, gattVars, telVars, notified, histVars, cData, cOp, fArgs, fOut, dOp>>

NextBuild ==
    \/ Build
    \/ BuildFrom
    \/ BuildWeightFromParts

SpecBuild == InitBuild /\ [][NextBuild]_vars

----------------------------------------------------------------------------
(* Properties *)

\* the two tasks of a connection are both gone
NoPair == gattPc = "none" /\ telPc = "none"

\* a step in which data_point.notify is called
NotifyCalled == notified' # notified

\* a step in which the event loop's conn.next() returns event e
Took(e) ==
    /\ gattPc = "next"
    /\ events # <<>>
    /\ Head(events) = e
    /\ (gattPc' # "next" \/ Len(events') < Len(events))
    /\ telFailed' = telFailed
    /\ aborted' = aborted

\* C1: when the stream yields Disconnected{reason = X} while the telemetry task
\* has not failed, the pair ends in that step and the supervisor is advertising
\* again; the reason the event loop logs is X; and no notify is called for that
\* connection afterwards (none at all until the next connection is bound).
C1_DisconnectPropagation ==
    /\ [](yielded # "none" =>
            /\ sup = "Advertising"
            /\ conn = 0
            /\ NoPair
            /\ reason = yielded
            /\ ended = "gatt"
            /\ ~telFailed)
    /\ [][\A r \in Reasons :
            Took(Disconnected(r)) =>
               /\ yielded' = r
               /\ reason' = r
               /\ sup' = "Advertising"
               /\ advPc' = "encode"
               /\ gattPc' = "none"
               /\ telPc' = "none"]_vars
    /\ [][(yielded # "none" /\ yielded' # "none") => ~NotifyCalled]_vars

\* the stream yielded a Disconnected event while the telemetry task, which had
\* already sent packets, was waiting for its timer
C1_Witness ==
    /\ yielded = "ConnectionTimeout"
    /\ reason = "ConnectionTimeout"
    /\ ended = "gatt"
    /\ cancelledAt = "sleep"
    /\ ticks >= 2
    /\ sup = "Advertising"

\* C2: when a notify of the telemetry task fails, the task makes no further
\* notify call, and that failure alone ends the pair in the same step: the event
\* loop is dropped wherever it is suspended, takes no further event of that
\* connection, and the supervisor is advertising again.
C2_TelemetryFailureEndsPair ==
    /\ [](telFailed =>
            /\ sup = "Advertising"
            /\ conn = 0
            /\ NoPair
            /\ ended = "tel"
            /\ cancelledAt \in {"next", "notify", "reply"}
            /\ events = <<>>)
    /\ [][(telFailed' /\ ~telFailed) =>
            /\ telPc = "notify"
            /\ cancelledAt' = gattPc
            /\ sup' = "Advertising"
            /\ advPc' = "encode"
            /\ UNCHANGED <<notified, pending, reason, yielded>>]_vars
    /\ [][(telFailed /\ telFailed') =>
            /\ ~NotifyCalled
            /\ UNCHANGED <<pending, reason, yielded, weight, ticks>>]_vars

\* the telemetry notify failed with no Disconnected event yielded, while the
\* event loop was waiting for its own notify to complete
C2_Witness ==
    /\ telFailed
    /\ yielded = "none"
    /\ ended = "tel"
    /\ cancelledAt = "notify"
    /\ pending = Write("control_point", <<IdQueryByte>>)
    /\ sup = "Advertising"

\* C3: the supervisor is Advertising or Connected, Advertising at the start; it
\* holds at most one connection, the one accepted last; the two tasks exist
\* exactly while it is Connected; while it is Advertising no event is taken and
\* no notify is called; every notify is made on the connection held; and
\* advertise() (hence accept) is not running while the pair runs.
C3_OneConnectionAtATime ==
    /\ sup = "Advertising"
    /\ [](/\ sup \in {"Advertising", "Connected"}
          /\ conn \in {0, accepted}
          /\ (sup = "Connected") <=> (conn # 0)
          /\ (sup = "Connected") <=> (gattPc \in {"next", "notify", "reply"})
          /\ (sup = "Connected") <=> (telPc \in {"notify", "sleep"})
          /\ (sup = "Advertising") <=> NoPair
          /\ (sup = "Connected") <=> (advPc = "none")
          /\ (sup = "Advertising") => events = <<>>)
    /\ [][(sup = "Advertising" /\ sup' = "Advertising") =>
            UNCHANGED <<notified, pending, reason, yielded, weight, ticks, events>>]_vars
    /\ [][NotifyCalled => (sup' = "Connected" /\ notified'.conn = conn' /\ conn' = accepted')]_vars
    /\ [][accepted' # accepted => (sup = "Advertising" /\ NoPair /\ accepted' = accepted + 1)]_vars

\* a second connection is being served, after the first has ended
C3_Witness ==
    /\ sup = "Connected"
    /\ conn = 2
    /\ accepted = 2
    /\ gattPc = "reply"
    /\ telPc = "sleep"
    /\ notified.conn = 2

\* C4: when a step of advertise() (setup, start, accept, binding) returns an
\* error, the process aborts: the loop does not call advertise() again, no task
\* exists for that attempt, and no step is taken afterwards.
C4_AdvertiseErrorAborts ==
    /\ [](advResult = "Err" =>
            /\ aborted
            /\ panicMsg = "adv"
            /\ sup = "Advertising"
            /\ conn = 0
            /\ NoPair)
    /\ [][(sup = "Advertising" /\ advPc' = advPc /\ advPc # "none" /\ advResult' # advResult) =>
            (advResult' = "Err" /\ aborted')]_vars
    /\ [][aborted => UNCHANGED vars]_vars

\* binding the attribute server failed for the second connection
C4_Witness ==
    /\ advResult = "Err"
    /\ aborted
    /\ advPc = "bind"
    /\ accepted = 2
    /\ ended # "none"

C6_IdQueryExactResponse ==
    [][Took(Write("control_point", <<112>>)) =>
         /\ notified' = [src |-> "gatt", conn |-> conn, data |-> <<0, 1, 42, 0, 0, 0, 0, 0, 0, 0>>]
         /\ gattPc' = "notify"
         /\ pending' = Write("control_point", <<112>>)]_vars

\* the ID response is the last notify called and the loop waits for it
C6_Witness ==
    /\ gattPc = "notify"
    /\ pending = Write("control_point", <<112>>)
    /\ notified = [src |-> "gatt", conn |-> 1, data |-> <<0, 1, 42, 0, 0, 0, 0, 0, 0, 0>>]
    /\ telPc = "sleep"

\* a Control-Point write that is neither empty nor exactly the byte 0x70
InertWrites ==
    {e \in Events : e.kind = "Write" /\ e.handle = "control_point"
                    /\ e.data # <<>> /\ e.data # <<112>>}

\* C7: when the event loop takes a non-empty Control-Point write other than
\* [0x70], it calls no notify and changes nothing but its own position: it goes
\* on to acknowledge the write (or straight to the next event when accept fails)
\* and the supervisor stays Connected to the same connection.
C7_UnknownOpcodeInert ==
    [][\A e \in InertWrites :
         Took(e) =>
            /\ ~NotifyCalled
            /\ gattPc' \in {"reply", "next"}
            /\ pending' \in {e, NoEvent}
            /\ sup = "Connected"
            /\ sup' = "Connected"
            /\ UNCHANGED <<conn, accepted, advPc, telVars, reason, yielded, ended, streamOpen>>]_vars

\* a two-byte write beginning with 0x70 is being acknowledged; the last notify
\* is still the telemetry task's
C7_Witness ==
    /\ gattPc = "reply"
    /\ pending = Write("control_point", <<112, 0>>)
    /\ notified.src = "tel"
    /\ sup = "Connected"

\* C8: counted in halves, the n-th weight the telemetry task emits is n for
\* n = 1 .. 100 (so 50.0 is emitted at n = 100 and is not reset), the 101st is
\* 0.0 (50.5 exceeded the limit; the value after the reset is 0.0, not 0.5) and
\* the 102nd is 0.5; from one packet to the next the weight either grows by 0.5
\* or goes from 50.0 to 0.0, and the packet notified carries it.
C8_WeightWrapBoundary ==
    /\ [](/\ ticks <= 100 => weight = ticks
          /\ ticks = 101 => weight = 0
          /\ ticks >= 102 => weight = ticks - 101
          /\ telPc = "notify" =>
                (notified.src = "tel" /\ SubSeq(notified.data, 3, 6) = F32Bytes(weight)))
    /\ [][ticks' = ticks + 1 =>
            \/ weight < 100 /\ weight' = weight + 1
            \/ weight = 100 /\ weight' = 0]_vars

\* the 101st packet carries 0.0
C8_Witness ==
    /\ ticks = 101
    /\ weight = 0
    /\ telPc = "notify"
    /\ SubSeq(notified.data, 1, 6) = <<1, 8, 0, 0, 0, 0>>

\* the variant the claim's table gives for a first byte
TableVariant(b) ==
    CASE b = 0   -> "Tare"
      [] b = 101 -> "StartMeasurement"
      [] b = 102 -> "StopMeasurement"
      [] b = 3   -> "StartPeakRfdMeasurement"
      [] b = 4   -> "StartPeakRfdMeasurementSeries"
      [] b = 5   -> "GetAppVersion"
      [] b = 6   -> "GetErrorInfo"
      [] b = 7   -> "ClearErrorInfo"
      [] b = 8   -> "Shutdown"
      [] b = 9   -> "SampleBattery"
      [] b = 112 -> "GetProgressorID"
      [] OTHER   -> "Unknown"

\* C9: from_bytes returns Invalid exactly for the empty string; otherwise the
\* variant of the table for the first byte, and Unknown(b) with the same byte b
\* for every first byte outside the table, whatever bytes follow; and
\* is_known_opcode is false exactly for Unknown and Invalid.
C9_DecoderTotality ==
    cOp # NotDecoded =>
       /\ (cOp.tag = "Invalid") <=> (cData = <<>>)
       /\ cData # <<>> =>
             /\ cOp.tag = TableVariant(cData[1])
             /\ cOp.tag = "Unknown" => cOp.byte = cData[1]
       /\ is_known_opcode(cOp) <=> (cOp.tag \notin {"Unknown", "Invalid"})
       /\ is_known_opcode(cOp) <=>
             (cData # <<>> /\ cData[1] \in {0, 101, 102, 3, 4, 5, 6, 7, 8, 9, 112})

\* a two-byte string whose second byte is the ID query decodes by its first byte
C9_Witness ==
    /\ cData = <<102, 112>>
    /\ cOp = Known("StopMeasurement")

\* C10 as stated: 14 bytes, byte 0 = opcode, byte 1 = length, and bytes
\* [2 + length .. 14) all zero, for every triple with length <= 12.
C10_Original ==
    (fOut # <<>> /\ fArgs.length <= 12) =>
       /\ Len(fOut) = 14
       /\ fOut[1] = fArgs.opcode
       /\ fOut[2] = fArgs.length
       /\ \A i \in (2 + fArgs.length) .. 13 : fOut[i + 1] = 0

\* C10 amended: 14 bytes, byte 0 = opcode, byte 1 = length, the first
\* min(n, 12) payload bytes at offset 2 and bytes [2 + min(n, 12) .. 14) all
\* zero, n being the payload's size; so bytes [2 + length .. 14) are all zero
\* when the payload has at most `length` bytes.
C10_FrameSize ==
    fOut # <<>> =>
       LET n == Len(fArgs.payload)
           m == IF n < 12 THEN n ELSE 12
       IN  /\ Len(fOut) = 14
           /\ fOut[1] = fArgs.opcode
           /\ fOut[2] = fArgs.length
           /\ \A i \in 0 .. (m - 1) : fOut[3 + i] = fArgs.payload[i + 1]
           /\ \A i \in (2 + m) .. 13 : fOut[i + 1] = 0
           /\ (fArgs.length <= 12 /\ n <= fArgs.length) =>
                 \A i \in (2 + fArgs.length) .. 13 : fOut[i + 1] = 0

\* a 3-byte payload encoded with length 1: the padding starts after the payload
C10_Witness ==
    /\ fArgs = [opcode |-> 1, length |-> 1, payload |-> <<1, 2, 3>>]
    /\ fOut = <<1, 1, 1, 2, 3, 0, 0, 0, 0, 0, 0, 0, 0, 0>>

\* C11: every notification on the Data Point, of the telemetry task and of the
\* ID response alike, is a 14-byte frame: opcode at offset 0, length at offset
\* 1, then a 12-byte payload whose bytes beyond the length are zero.
C11_Original ==
    notified # NoNotify =>
       /\ notified.src \in {"tel", "gatt"}
       /\ Len(notified.data) = DATA_PAYLOAD_SIZE + 2
       /\ notified.data[2] <= DATA_PAYLOAD_SIZE
       /\ \A i \in (3 + notified.data[2]) .. Len(notified.data) : notified.data[i] = 0

\* the u32 whose little-endian encoding is the four bytes b
LeU32(b) == [hi |-> b[3] + 256 * b[4], lo |-> b[1] + 256 * b[2]]

\* the number of halves the binary32 bit pattern stands for: sign 0, biased
\* exponent e, 23-bit fraction m give (2^23 + m) * 2^(e - 150); -1 when that is
\* not a whole number of halves between 0.5 and 2^23
F32Halves(bits) ==
    IF bits = ZeroUs THEN 0
    ELSE LET e   == (bits.hi \div 128) % 256
             m   == (bits.hi % 128) * Limb + bits.lo
             sig == Pow2(23) + m
         IN  IF bits.hi >= 128 * 256 \/ e > 149 \/ e < 126 THEN -1
             ELSE IF sig % Pow2(149 - e) # 0 THEN -1
             ELSE sig \div Pow2(149 - e)

\* C12: for every Weight(w, t), DataOpcode::to_bytes returns 14 bytes with
\* opcode 1 and length 8; bytes [2..6) read as a little-endian binary32 give w,
\* bytes [6..10) read as a little-endian u32 give t, bytes [10..14) are zero;
\* and the packet custom_task builds for (w, t) is the first 10 of those bytes.
C12_WeightRoundTrip ==
    (dOp.tag = "Weight" /\ dOut.via = "DataOpcode::to_bytes") =>
       LET b == dOut.bytes
       IN  /\ ~dOut.panic
           /\ Len(b) = 14
           /\ b[1] = 1
           /\ b[2] = 8
           /\ F32Halves(LeU32(SubSeq(b, 3, 6))) = dOp.weight
           /\ LeU32(SubSeq(b, 7, 10)) = dOp.timestamp
           /\ \A i \in 11 .. 14 : b[i] = 0
           /\ Packet(dOp.weight, dOp.timestamp) = SubSeq(b, 1, 10)

\* Weight(0.5, 0x12345678) built by DataOpcode::to_bytes
C12_Witness ==
    /\ dOp = Weight(1, [hi |-> 4660, lo |-> 22136])
    /\ dOut = Returned("DataOpcode::to_bytes", <<1, 8, 0, 0, 0, 63, 120, 86, 52, 18, 0, 0, 0, 0>>)

\* C13: whenever a frame is built from a DataOpcode (by to_bytes or through
\* DataPoint::from), its opcode, length and payload are those of the variant:
\* BatteryVoltage(v) -> 0, 4, little-endian v; Weight -> 1, 8;
\* LowPowerWarning -> 4, 0; AppVersion(s) -> 0, len(s), the bytes of s;
\* ProgressorId(i) -> 0, 1, i; the payload bytes after the first `length` ones
\* are zero, and both ways of building give the same 14 bytes.
C13_VariantDerivedFrame ==
    (dOut.via \in {"DataOpcode::to_bytes", "DataPoint::from"} /\ ~dOut.panic) =>
       LET b == dOut.bytes
           n == b[2]
       IN  /\ Len(b) = 14
           /\ n <= 12
           /\ \A i \in (3 + n) .. 14 : b[i] = 0
           /\ dOp.tag = "BatteryVoltage" =>
                 (b[1] = 0 /\ n = 4 /\ LeU32(SubSeq(b, 3, 6)) = dOp.voltage)
           /\ dOp.tag = "Weight" =>
                 (b[1] = 1 /\ n = 8 /\ SubSeq(b, 3, 6) = F32Bytes(dOp.weight)
                  /\ LeU32(SubSeq(b, 7, 10)) = dOp.timestamp)
           /\ dOp.tag = "LowPowerWarning" => (b[1] = 4 /\ n = 0)
           /\ dOp.tag = "AppVersion" =>
                 (b[1] = 0 /\ n = Len(dOp.version) /\ SubSeq(b, 3, 2 + n) = dOp.version)
           /\ dOp.tag = "ProgressorId" => (b[1] = 0 /\ n = 1 /\ b[3] = dOp.id)
           /\ b = DataOpcode_to_bytes(dOp).bytes
           /\ b = DataPoint_from_to_bytes(dOp).bytes

\* the 3-byte version 1.2.3 built through DataPoint::from
C13_Witness ==
    /\ dOp = AppVersion(<<1, 2, 3>>)
    /\ dOut = Returned("DataPoint::from", <<0, 3, 1, 2, 3, 0, 0, 0, 0, 0, 0, 0, 0, 0>>)

\* C14: building a frame never fails: whatever the DataOpcode, an AppVersion
\* with more than 12 bytes included, the encoder returns 14 bytes whose payload
\* holds the first 12 bytes of the source, and never panics.
C14_Original ==
    dOut.via \in {"DataOpcode::to_bytes", "DataPoint::from"} =>
       /\ ~dOut.panic
       /\ Len(dOut.bytes) = 14
       /\ dOp.tag = "AppVersion" =>
             \A i \in 1 .. Min(Len(dOp.version), DATA_PAYLOAD_SIZE) :
                dOut.bytes[2 + i] = dOp.version[i]

\* a step in which the event loop calls notify for an ID response
IdResponseIssued == gattPc # "notify" /\ gattPc' = "notify"

\* C15: the events of a connection are taken from the head of what the host
\* has delivered, one at a time: none is taken while the previous one is being
\* answered or acknowledged; an ID response is issued only in the step that
\* takes a [0x70] Control-Point write, which is the oldest event not yet taken,
\* and no second response is issued for it; so responses never outnumber the
\* [0x70] writes delivered and are issued in the order of their writes.
C15_WritesInOrder ==
    /\ [][events' # events =>
            \/ \E e \in Events : events' = Append(events, e)
            \/ gattPc = "next" /\ events # <<>> /\ events' = Tail(events)
            \/ NoPair' /\ events' = <<>>]_vars
    /\ [](gattPc \in {"notify", "reply"} =>
            (pending.kind \in {"Write", "Read", "OtherGatt"} /\ sup = "Connected"))
    /\ [][(gattPc \in {"notify", "reply"}) =>
            /\ ~IdResponseIssued
            /\ (notified' # notified => notified'.src = "tel")
            /\ (events' = events \/ NoPair' \/ \E e \in Events : events' = Append(events, e))
            /\ pending' \in {pending, NoEvent}]_vars
    /\ [][IdResponseIssued =>
            /\ gattPc = "next"
            /\ events # <<>>
            /\ Head(events) = Write("control_point", <<112>>)
            /\ events' = Tail(events)
            /\ pending' = Head(events)
            /\ notified' = [src |-> "gatt", conn |-> conn, data |-> IdResponse]]_vars
    /\ [][(gattPc = "notify" /\ gattPc' # "notify") =>
            /\ gattPc' \in {"reply", "next", "none"}
            /\ pending' \in {pending, NoEvent}]_vars

\* the first of two queued ID queries is being answered while the second and a
\* Tare write between them still wait
C15_Witness ==
    /\ gattPc = "notify"
    /\ pending = Write("control_point", <<112>>)
    /\ events = <<Write("control_point", <<0>>), Write("control_point", <<112>>)>>
    /\ notified.src = "gatt"

\* C16 as stated: a notify failure of either producer, the telemetry task or
\* the event loop's ID response, ends the pair in that step and the supervisor
\* is advertising again.
C16_Original ==
    [][((telFailed' /\ ~telFailed) \/ (lastErr' = "GattNotify" /\ lastErr # "GattNotify")) =>
         /\ sup' = "Advertising"
         /\ NoPair']_vars

\* C16 amended: a notify failure of the telemetry task ends the pair in that
\* step and the supervisor is advertising again; a notify failure of the event
\* loop's ID response ends nothing: the loop goes on to acknowledge the write,
\* the telemetry task is where it was and the supervisor stays Connected to the
\* same connection.
C16_NotifyFailure ==
    /\ [][(telFailed' /\ ~telFailed) =>
            /\ telPc = "notify"
            /\ sup = "Connected"
            /\ sup' = "Advertising"
            /\ advPc' = "encode"
            /\ NoPair'
            /\ conn' = 0
            /\ ended' = "tel"]_vars
    /\ [][(lastErr' = "GattNotify" /\ lastErr # "GattNotify") =>
            /\ gattPc = "notify"
            /\ gattPc' = "reply"
            /\ pending' = pending
            /\ sup' = "Connected"
            /\ conn' = conn
            /\ telPc' = telPc
            /\ telFailed' = telFailed
            /\ ended' = ended]_vars
    /\ [](lastErr = "GattNotify" => (ended # "gatt" /\ yielded = "none"))

\* the ID response's notify has failed and the write is being acknowledged on
\* the same connection, the telemetry task still running
C16_Witness ==
    /\ lastErr = "GattNotify"
    /\ gattPc = "reply"
    /\ pending = Write("control_point", <<112>>)
    /\ sup = "Connected"
    /\ telPc = "sleep"
    /\ ended = "none"

\* the events the stream hands over as GattConnectionEvent::Gatt
GattEvents == {e \in Events : e.kind \in {"Write", "Read", "OtherGatt"}}

\* a step in which event.accept() or reply.send() fails, no such failure
\* being the last error before
ReplyFailed == lastErr' = "AttReply" /\ lastErr # "AttReply"

\* C17: every Gatt event the event loop takes is accepted and its reply sent
\* before the next event is taken; when accepting or sending fails, the step
\* writes a warning about it, the loop goes on to the next event and the
\* supervisor stays Connected.
C17_Original ==
    /\ [][\A e \in GattEvents :
            Took(e) =>
               \/ gattPc' \in {"notify", "reply"} /\ pending' = e
               \/ gattPc' = "next" /\ lastErr' = "AttReply"]_vars
    /\ [][(events # <<>> /\ events' = Tail(events) /\ ~NoPair') =>
            (gattPc = "next" /\ pending = NoEvent)]_vars
    /\ [][ReplyFailed =>
            /\ warned' \notin {"none", "[gatt] Failed to notify data point"}
            /\ gattPc' = "next"
            /\ sup' = "Connected"
            /\ conn' = conn]_vars

\* C18: the event loop finishes on its own only in the step that takes a
\* Disconnected event, and it then returns Ok; taking a write, a read or any
\* other event, and the completion of an ID response's notify or of a reply,
\* failed or not, leave it running unless the telemetry task ends the pair in
\* that step; it never returns an error.
C18_LoopEndsOnlyOnDisconnect ==
    /\ [](returned \in {"none", "Ok"})
    /\ [](ended = "gatt" => (yielded \in Reasons /\ reason = yielded /\ returned = "Ok"))
    /\ [][(returned' # returned \/ (ended' = "gatt" /\ ended # "gatt")) =>
            /\ gattPc = "next"
            /\ events # <<>>
            /\ Head(events).kind = "Disconnected"
            /\ returned' = "Ok"
            /\ ended' = "gatt"]_vars
    /\ [][\A e \in Events :
            (Took(e) /\ e.kind # "Disconnected") =>
               (gattPc' \in {"next", "notify", "reply"} /\ ended' = "none")]_vars
    /\ [][(gattPc \in {"notify", "reply"} /\ gattPc' # gattPc) =>
            \/ gattPc' \in {"next", "reply"} /\ ended' = "none"
            \/ gattPc' = "none" /\ ended' = "tel" /\ telFailed']_vars

\* the loop has returned Ok on the Disconnected event of the second connection,
\* while the telemetry task was waiting for its notify
C18_Witness ==
    /\ ended = "gatt"
    /\ returned = "Ok"
    /\ reason = "RemoteUserTerminatedConn"
    /\ lastErr = "Disconnected"
    /\ cancelledAt = "notify"
    /\ accepted = 2

\* the weight, in halves, that a notified telemetry frame carries
FrameWeight(n) == F32Halves(LeU32(SubSeq(n.data, 3, 6)))

\* C19: the weight in every telemetry frame is a whole number of halves
\* between 0.0 and 50.0 (never 50.5); from one frame of a connection to the
\* next it grows by 0.5 or goes from 50.0 to 0.0; and the first frame of every
\* connection carries 0.5 whatever weight the previous connection ended on.
C19_WeightPerConnection ==
    /\ [](notified.src = "tel" =>
            (FrameWeight(notified) \in 0 .. 100 /\ FrameWeight(notified) = weight))
    /\ [][(conn = 0 /\ conn' # 0) =>
            /\ notified'.src = "tel"
            /\ notified'.conn = conn'
            /\ FrameWeight(notified') = 1
            /\ SubSeq(notified'.data, 3, 6) = <<0, 0, 0, 63>>]_vars
    /\ [][(conn # 0 /\ conn' = conn /\ notified' # notified /\ notified'.src = "tel") =>
            /\ notified.src = "tel"
            /\ notified.conn = conn
            /\ \/ FrameWeight(notified) < 100 /\ FrameWeight(notified') = FrameWeight(notified) + 1
               \/ FrameWeight(notified) = 100 /\ FrameWeight(notified') = 0]_vars

\* the first frame of the second connection carries 0.5; the first connection
\* ended when a notify failed
C19_Witness ==
    /\ conn = 2
    /\ ticks = 1
    /\ telPc = "notify"
    /\ lastErr = "TelNotify"
    /\ notified = [src |-> "tel", conn |-> 2, data |-> <<1, 8, 0, 0, 0, 63, 0, 0, 0, 0>>]

\* the timestamp that a notified telemetry frame carries
FrameTimestamp(n) == LeU32(SubSeq(n.data, 7, 10))

\* a <= b for two-limb numbers
LeqUs(a, b) == a.hi < b.hi \/ (a.hi = b.hi /\ a.lo <= b.lo)

\* C20: the timestamp in a telemetry frame is the time elapsed since the start
\* of the connection's telemetry task, in microseconds, modulo 2^32; the first
\* frame of every connection carries 0; from one frame of a connection to the
\* next the timestamp does not decrease as long as the elapsed time stays
\* within the same multiple of 2^32 microseconds, and is smaller when the
\* elapsed time passes one (it wraps, it does not saturate or fail).
C20_TimestampWraps ==
    /\ [](telPc \in {"notify", "sleep"} =>
            /\ notified.src = "tel" =>
                  FrameTimestamp(notified) = [hi |-> elapsed.hi % 65536, lo |-> elapsed.lo]
            /\ elapsed.lo \in 0 .. 65535)
    /\ [][(conn = 0 /\ conn' # 0) =>
            (elapsed' = ZeroUs /\ FrameTimestamp(notified') = ZeroUs)]_vars
    /\ [][(conn # 0 /\ conn' = conn /\ ticks' = ticks + 1 /\ notified.src = "tel") =>
            /\ notified'.src = "tel"
            /\ LeqUs(elapsed, elapsed')
            /\ IF elapsed'.hi \div 65536 = elapsed.hi \div 65536
               THEN LeqUs(FrameTimestamp(notified), FrameTimestamp(notified'))
               ELSE ~LeqUs(FrameTimestamp(notified), FrameTimestamp(notified'))]_vars

\* 2^32 microseconds and 300 ms have passed on the second connection: the frame
\* carries 300000 = 4 * 65536 + 37856
C20_Witness ==
    /\ conn = 2
    /\ telPc = "notify"
    /\ elapsed = [hi |-> 65536 + 4, lo |-> 37856]
    /\ SubSeq(notified.data, 7, 10) = <<224, 147, 4, 0>>

\* the Control-Point write that asks for the device ID
IdQueryWrite == Write("control_point", <<112>>)

\* C21: for a Control-Point write of [0x70] the event loop calls notify in the
\* step that takes the write and waits; only when that notify completes,
\* failed or not, does it accept the write, and then it waits for the reply to
\* be sent; until both are done it takes no event, so a Disconnected event
\* delivered meanwhile stays unobserved; and when the telemetry task ends the
\* pair while the loop waits for the notify, the write has not been accepted and
\* never is.
C21_NotifyBeforeAck ==
    /\ [][Took(IdQueryWrite) =>
            /\ gattPc' = "notify"
            /\ pending' = IdQueryWrite
            /\ notified'.src = "gatt"]_vars
    /\ [](gattPc = "notify" => pending = IdQueryWrite)
    /\ [][(gattPc = "notify" /\ gattPc' # "notify") =>
            \/ gattPc' = "reply" /\ pending' = IdQueryWrite /\ ended' = "none"
               /\ warned' \in {"none", "[gatt] Failed to notify data point"}
            \/ gattPc' = "next" /\ pending' = NoEvent /\ lastErr' = "AttReply"
            \/ gattPc' = "none" /\ pending' = IdQueryWrite /\ ended' = "tel"
               /\ cancelledAt' = "notify"]_vars
    /\ [][(gattPc = "reply" /\ pending = IdQueryWrite /\ gattPc' # "reply") =>
            \/ gattPc' = "next" /\ pending' = NoEvent
            \/ gattPc' = "none" /\ ended' = "tel" /\ cancelledAt' = "reply"]_vars
    /\ [][(gattPc \in {"notify", "reply"} /\ ~NoPair') =>
            /\ (events' = events \/ \E e \in Events : events' = Append(events, e))
            /\ UNCHANGED <<yielded, reason, returned, sup, conn>>]_vars
    /\ [](gattPc \in {"notify", "reply"} => (yielded = "none" /\ sup = "Connected"))
    /\ []((ended = "tel" /\ cancelledAt = "notify") =>
            (pending = IdQueryWrite /\ gattPc = "none" /\ sup = "Advertising" /\ events = <<>>))
    /\ [][(ended = "tel" /\ cancelledAt = "notify" /\ ended' = ended) =>
            (pending' = pending /\ gattPc' = "none")]_vars

\* the ID response's notify has not completed; a Tare write and the Disconnected
\* event delivered after the query wait unobserved
C21_Witness ==
    /\ gattPc = "notify"
    /\ pending = IdQueryWrite
    /\ events = <<Write("control_point", <<0>>), Disconnected("ConnectionTimeout")>>
    /\ ~streamOpen
    /\ yielded = "none"
    /\ sup = "Connected"

====
